---- MODULE Spec2Model ----
(***************************************************************************)
(* Deployment orchestration of the compute service: DeploymentService      *)
(* (services/compute/src/services/kubernetes.rs) over the ledger           *)
(* repositories (services/compute/src/features/repository.rs) and the      *)
(* cluster API.  Every await of a call is one step, so calls interleave    *)
(* exactly where the async code can yield.                                 *)
(***************************************************************************)
EXTENDS Integers, Sequences, FiniteSets, TLC

VARIABLES
    keyOk,          \* the configured K8S_ENCRYPTION_KEY is well formed
    deployments,    \* ledger table deployments: id -> row, or NoRow
    secretRows,     \* ledger table deployment_secrets: set of rows
    eventRows,      \* ledger table deployment_events: per deployment, event types in insertion order
    cluster,        \* cluster objects: set of [kind, name, replicas, env, data]
    calls,          \* one record per request slot: the call it is executing
    nextId,         \* next deployment id the ledger generates
    opsStarted,     \* number of calls started so far
    faults,         \* number of ledger / cluster calls that failed for an outside reason
    stream          \* one live-status connection: handler, poller, listener, client

vars ==
    <<keyOk, deployments, secretRows, eventRows, cluster, calls, nextId, opsStarted, faults,
      stream>>

-----------------------------------------------------------------------------
(* Bounds *)

MaxOps == 2
MaxReplicas == 2
MaxCalls == 2
MaxFaults == 2
MaxTicks == 2
MaxInbox == 1
MaxStreamOps == 1
MaxCreates == 1

Calls == 1..MaxCalls
Ids == 1..MaxOps
Replicas == 1..MaxReplicas

(* Callers and the projects table (id -> owner_id).  Uuids print as         *)
(* lower-case hex, modelled as short character sequences.                   *)
Users == {<<"a", "1">>, <<"b", "2">>}
Projects == {<<"c", "3">>, <<"d", "4">>}
ProjectOwner(p) == IF p = <<"c", "3">> THEN <<"a", "1">> ELSE <<"b", "2">>

(* Request inputs *)
Names == {<<"W", "_", "b">>}
SecretKeys == {"DB_PASS"}
SecretMaps == {[k \in ks |-> "hunter2"] : ks \in SUBSET SecretKeys}
EnvKeys == {"DB_PASS"}
EnvMaps == {[k \in ks |-> "plain"] : ks \in SUBSET EnvKeys}

(* req.subdomain: None, or Some(subdomain). *)
NoSubdomain == <<>>
Subdomains == {NoSubdomain}

(* config.base_domain *)
BaseDomain == <<"p", ".", "u", "z">>

(* Requests of the create-only specification: names in mixed case, with a   *)
(* trailing underscore, and of 27 characters; the subdomain given or not.    *)
RequestNames ==
    {<<"W", "_", "b">>, <<"w", "e", "b">>, <<"w", "e", "b", "_">>, [i \in 1..27 |-> "a"]}
RequestSubdomains == {NoSubdomain, <<"A", "p", "p">>}

NoRow == [status |-> "none"]

-----------------------------------------------------------------------------
(* Pure helpers *)

DeploymentStatus == {"Pending", "Running", "Succeeded", "Failed", "Terminated"}

(* Status a freshly inserted row gets: the INSERT names no status column.   *)
DefaultStatus == "Pending"

ToLowerChar(ch) ==
    CASE ch = "W" -> "w"
      [] ch = "B" -> "b"
      [] ch = "A" -> "a"
      [] OTHER -> ch

ToLowercase(s) == [i \in 1..Len(s) |-> ToLowerChar(s[i])]

ReplaceUnderscore(s) == [i \in 1..Len(s) |-> IF s[i] = "_" THEN "-" ELSE s[i]]

(* format!("{}-{}", project_id, req.name).to_lowercase().replace("_", "-") *)
ClusterDeploymentName(project_id, name) ==
    ReplaceUnderscore(ToLowercase(project_id \o <<"-">> \o name))

(* format!("{}-secrets", name) *)
SecretName(name) == name \o <<"-", "s", "e", "c", "r", "e", "t", "s">>

(* &user_id.to_string()[..8]: the leading characters of the printed uuid;   *)
(* of a uuid abbreviated to two characters, the first.                      *)
OwnerPrefix(user_id) == SubSeq(user_id, 1, 1)

(* Subdomain without the to_lowercase() of the derived value. *)
Subdomain_NotLowered(subdomain, name, user_id) ==
    IF subdomain = NoSubdomain
      THEN name \o <<"-">> \o OwnerPrefix(user_id)
      ELSE subdomain

(* req.subdomain.unwrap_or_else(|| format!("{}-{}", req.name, &user_id.to_string()[..8]).to_lowercase()) *)
Subdomain(subdomain, name, user_id) ==
    IF subdomain = NoSubdomain
      THEN ToLowercase(name \o <<"-">> \o OwnerPrefix(user_id))
      ELSE subdomain

(* format!("{}.{}", subdomain, base_domain) *)
ExternalUrl(subdomain, base_domain) == subdomain \o <<".">> \o base_domain

(* EncryptionService::encrypt: the stored bytes are the ciphertext.         *)
Encrypt(plaintext) == <<"enc", plaintext>>

(* Cluster object name for a kind, given the row's cluster_deployment_name. *)
ObjectName(kind, cname) == IF kind = "Secret" THEN SecretName(cname) ELSE cname

Exists(kind, name) == \E o \in cluster : o.kind = kind /\ o.name = name

(* The row lookup without the join on the owner: WHERE d.id = $1 alone.      *)
OwnedRow_AnyOwner(deployment_id, user_id) ==
    /\ deployment_id \in Ids
    /\ deployments[deployment_id] # NoRow

(* INNER JOIN projects p ON d.project_id = p.id WHERE d.id = $1 AND p.owner_id = $2 *)
OwnedRow(deployment_id, user_id) ==
    /\ deployment_id \in Ids
    /\ deployments[deployment_id] # NoRow
    /\ ProjectOwner(deployments[deployment_id].project_id) = user_id

(* ON DELETE CASCADE from deployments to deployment_secrets / deployment_events *)
CascadeSecrets(deployment_id) == {s \in secretRows : s.deployment_id # deployment_id}
CascadeEvents(deployment_id) == [eventRows EXCEPT ![deployment_id] = <<>>]

-----------------------------------------------------------------------------
(* Call records *)

NoTx == [row |-> NoRow, secrets |-> {}]

IdleCall ==
    [op |-> "idle", pc |-> "idle", user_id |-> <<>>, project_id |-> <<>>, name |-> <<>>,
     replicas |-> 0, env_vars |-> <<>>, secrets |-> <<>>, req_subdomain |-> <<>>,
     subdomain |-> <<>>, external_url |-> <<>>, response_url |-> <<>>, id |-> 0, deployment |-> NoRow, tx |-> NoTx,
     todo |-> {}, trace |-> <<>>, result |-> "none", status |-> "none",
     fetched |-> {}, secret_keys |-> {}]

Free(c) == calls[c].pc \in {"idle", "done"}

(* A request is given the lowest free slot (slots are interchangeable).     *)
CanStart(c, limit) ==
    /\ Free(c)
    /\ \A d \in Calls : d < c => ~Free(d)
    /\ opsStarted < limit

(* Ids a caller can name: those the ledger has generated, and one it has not. *)
KnownIds == {i \in Ids : i <= nextId}

At(c, op, pc) == calls[c].op = op /\ calls[c].pc = pc

Ledger(call, ok) == [sys |-> "ledger", call |-> call, arg |-> 0, ok |-> ok]
K8s(call, arg, ok) == [sys |-> "k8s", call |-> call, arg |-> arg, ok |-> ok]

(* `?` on an error: the call returns it; an open transaction is dropped,    *)
(* which rolls it back.                                                      *)
Return(r, err, entry) ==
    [r EXCEPT !.pc = "done", !.result = err, !.tx = NoTx, !.todo = {},
              !.trace = Append(@, entry)]

(* A ledger or cluster call either goes through (TRUE) or fails for a      *)
(* reason outside the program: connection loss, timeout, server error.      *)
Outcomes == IF faults < MaxFaults THEN BOOLEAN ELSE {TRUE}

Charge(ok) == faults' = IF ok THEN faults ELSE faults + 1

(* A live-status connection before watch_deployment is called. *)
NoMsg == [type |-> "none", query |-> "none", tick |-> 0, n |-> 0]

IdleStream ==
    [handler |-> "idle", send_task |-> "none", recv_task |-> "none", name |-> <<>>,
     ticks |-> 0, q |-> 0, msg |-> NoMsg, sent |-> <<>>, connected |-> FALSE, inbox |-> 0,
     id |-> 0, user_id |-> <<>>, ledger |-> <<>>, k8s |-> {}]

-----------------------------------------------------------------------------
Init ==
    /\ keyOk \in BOOLEAN
    /\ deployments = [i \in Ids |-> NoRow]
    /\ secretRows = {}
    /\ eventRows = [i \in Ids |-> <<>>]
    /\ cluster = {}
    /\ calls = [c \in Calls |-> IdleCall]
    /\ nextId = 1
    /\ opsStarted = 0
    /\ faults = 0
    /\ stream = IdleStream

-----------------------------------------------------------------------------
(* DeploymentService::create *)

(* create_deployment handler: project ownership is verified, then create    *)
(* is entered with the request.                                              *)
StartCreateFrom(c, limit, names, subdomains) ==
    /\ CanStart(c, limit)
    /\ \E project_id \in Projects, name \in names, replicas \in Replicas,
          env_vars \in EnvMaps, secrets \in SecretMaps, subdomain \in subdomains :
          LET user_id == ProjectOwner(project_id)
              sub == Subdomain(subdomain, name, user_id)
          IN calls' = [calls EXCEPT ![c] =
                        [IdleCall EXCEPT !.op = "create", !.pc = "vault",
                                         !.user_id = user_id,
                                         !.project_id = project_id, !.name = name,
                                         !.replicas = replicas, !.env_vars = env_vars,
                                         !.secrets = secrets, !.req_subdomain = subdomain,
                                         !.subdomain = sub,
                                         !.external_url = ExternalUrl(sub, BaseDomain)]]
    /\ opsStarted' = opsStarted + 1
    /\ UNCHANGED <<keyOk, deployments, secretRows, eventRows, cluster, nextId, faults>>

StartCreate(c, limit) == StartCreateFrom(c, limit, Names, Subdomains)

(* EncryptionService::new(encryption_key)?; then pool.begin().await?        *)
CreateBegin(c) ==
    /\ At(c, "create", "vault")
    /\ IF ~keyOk
         THEN /\ calls' = [calls EXCEPT ![c] =
                            [@ EXCEPT !.pc = "done", !.result = "EncryptionFailed"]]
              /\ UNCHANGED faults
         ELSE \E ok \in Outcomes :
                /\ Charge(ok)
                /\ calls' = [calls EXCEPT ![c] =
                              IF ok THEN [@ EXCEPT !.pc = "insert",
                                                   !.trace = Append(@, Ledger("begin", TRUE))]
                                    ELSE Return(@, "SqlxError", Ledger("begin", FALSE))]
    /\ UNCHANGED <<keyOk, deployments, secretRows, eventRows, cluster, nextId, opsStarted>>

(* NewRow with the replica count appended to the cluster resource name. *)
NewRow_NameWithReplicas(r, id) ==
    [id |-> id, user_id |-> r.user_id, project_id |-> r.project_id, name |-> r.name,
     env_vars |-> r.env_vars, replicas |-> r.replicas, status |-> DefaultStatus,
     cluster_deployment_name |->
        ClusterDeploymentName(r.project_id, r.name) \o <<"-", ToString(r.replicas)>>]

(* The row DeploymentRepository::create inserts and returns.                *)
NewRow(r, id) ==
    [id |-> id, user_id |-> r.user_id, project_id |-> r.project_id, name |-> r.name,
     env_vars |-> r.env_vars, replicas |-> r.replicas, status |-> DefaultStatus,
     cluster_deployment_name |-> ClusterDeploymentName(r.project_id, r.name)]

(* DeploymentRepository::create(&mut tx, ...).await?                         *)
CreateInsert(c) ==
    /\ At(c, "create", "insert")
    /\ \E ok \in Outcomes :
          /\ Charge(ok)
          /\ IF ok
            THEN /\ calls' = [calls EXCEPT ![c] =
                               [@ EXCEPT !.pc = "secrets", !.id = nextId,
                                         !.deployment = NewRow(calls[c], nextId),
                                         !.tx = [row |-> NewRow(calls[c], nextId), secrets |-> {}],
                                         !.todo = DOMAIN calls[c].secrets,
                                         !.trace = Append(@, Ledger("insert_deployment", TRUE))]]
                 /\ nextId' = nextId + 1
            ELSE /\ calls' = [calls EXCEPT ![c] =
                               Return(@, "SqlxError", Ledger("insert_deployment", FALSE))]
                 /\ UNCHANGED nextId
    /\ UNCHANGED <<keyOk, deployments, secretRows, eventRows, cluster, opsStarted>>

(* CreateSecretRow with the insert run on the pool instead of the open      *)
(* transaction: the secret row is persisted at once.                        *)
CreateSecretRow_OnPool(c) ==
    /\ At(c, "create", "secrets")
    /\ \E key \in calls[c].todo, encrypted \in Outcomes, ok \in Outcomes :
          /\ Charge(encrypted /\ ok)
          /\ secretRows' = IF encrypted /\ ok
                             THEN secretRows \cup
                                    {[deployment_id |-> calls[c].id, key |-> key,
                                      value |-> Encrypt(calls[c].secrets[key])]}
                             ELSE secretRows
          /\ calls' = [calls EXCEPT ![c] =
                CASE ~encrypted ->
                       [@ EXCEPT !.pc = "done", !.result = "EncryptionFailed",
                                 !.tx = NoTx, !.todo = {}]
                  [] encrypted /\ ~ok -> Return(@, "SqlxError", Ledger("insert_secret", FALSE))
                  [] OTHER ->
                       [@ EXCEPT !.todo = @ \ {key},
                                 !.trace = Append(@, Ledger("insert_secret", TRUE))]]
    /\ UNCHANGED <<keyOk, deployments, eventRows, cluster, nextId, opsStarted>>

(* CreateSecretRow with the submitted value bound to the INSERT instead of  *)
(* the encrypt result.                                                       *)
CreateSecretRow_Plaintext(c) ==
    /\ At(c, "create", "secrets")
    /\ \E key \in calls[c].todo, encrypted \in Outcomes, ok \in Outcomes :
          /\ Charge(encrypted /\ ok)
          /\ calls' = [calls EXCEPT ![c] =
                CASE ~encrypted ->
                       [@ EXCEPT !.pc = "done", !.result = "EncryptionFailed",
                                 !.tx = NoTx, !.todo = {}]
                  [] encrypted /\ ~ok -> Return(@, "SqlxError", Ledger("insert_secret", FALSE))
                  [] OTHER ->
                       [@ EXCEPT !.todo = @ \ {key},
                                 !.tx.secrets = @ \cup
                                     {[deployment_id |-> calls[c].id, key |-> key,
                                       value |-> calls[c].secrets[key]]},
                                 !.trace = Append(@, Ledger("insert_secret", TRUE))]]
    /\ UNCHANGED <<keyOk, deployments, secretRows, eventRows, cluster, nextId, opsStarted>>

(* for (key, value) in secrets { encrypt(&value)?; DeploymentSecretRepository::create(&mut tx, ..).await? } *)
CreateSecretRow(c) ==
    /\ At(c, "create", "secrets")
    /\ \E key \in calls[c].todo, encrypted \in Outcomes, ok \in Outcomes :
          /\ Charge(encrypted /\ ok)
          /\ calls' = [calls EXCEPT ![c] =
                CASE ~encrypted ->
                       [@ EXCEPT !.pc = "done", !.result = "EncryptionFailed",
                                 !.tx = NoTx, !.todo = {}]
                  [] encrypted /\ ~ok -> Return(@, "SqlxError", Ledger("insert_secret", FALSE))
                  [] OTHER ->
                       [@ EXCEPT !.todo = @ \ {key},
                                 !.tx.secrets = @ \cup
                                     {[deployment_id |-> calls[c].id, key |-> key,
                                       value |-> Encrypt(calls[c].secrets[key])]},
                                 !.trace = Append(@, Ledger("insert_secret", TRUE))]]
    /\ UNCHANGED <<keyOk, deployments, secretRows, eventRows, cluster, nextId, opsStarted>>

(* FirstComposeStep without the test of secrets.is_empty(). *)
FirstComposeStep_AlwaysSecret(secrets) == "k8s_secret"

(* First cluster create of create_k8s_resources: the secret object only if  *)
(* the request has secrets.                                                  *)
FirstComposeStep(secrets) == IF DOMAIN secrets = {} THEN "k8s_deployment" ELSE "k8s_secret"

(* CreateCommit with the commit's error dropped (let _ = tx.commit()):     *)
(* composition starts although nothing was committed.                       *)
CreateCommit_IgnoreFailure(c) ==
    /\ At(c, "create", "secrets")
    /\ calls[c].todo = {}
    /\ \E ok \in Outcomes :
          /\ Charge(ok)
          /\ IF ok
            THEN /\ deployments' = [deployments EXCEPT ![calls[c].id] = calls[c].tx.row]
                 /\ secretRows' = secretRows \cup calls[c].tx.secrets
            ELSE UNCHANGED <<deployments, secretRows>>
          /\ calls' = [calls EXCEPT ![c] =
                        [@ EXCEPT !.pc = FirstComposeStep(calls[c].secrets),
                                  !.tx = NoTx,
                                  !.trace = Append(@, Ledger("commit", ok))]]
    /\ UNCHANGED <<keyOk, eventRows, cluster, nextId, opsStarted>>

(* tx.commit().await?                                                        *)
CreateCommit(c) ==
    /\ At(c, "create", "secrets")
    /\ calls[c].todo = {}
    /\ \E ok \in Outcomes :
          /\ Charge(ok)
          /\ IF ok
            THEN /\ deployments' = [deployments EXCEPT ![calls[c].id] = calls[c].tx.row]
                 /\ secretRows' = secretRows \cup calls[c].tx.secrets
                 /\ calls' = [calls EXCEPT ![c] =
                               [@ EXCEPT !.pc = FirstComposeStep(calls[c].secrets),
                                         !.tx = NoTx,
                                         !.trace = Append(@, Ledger("commit", TRUE))]]
            ELSE /\ calls' = [calls EXCEPT ![c] =
                               Return(@, "SqlxError", Ledger("commit", FALSE))]
                 /\ UNCHANGED <<deployments, secretRows>>
    /\ UNCHANGED <<keyOk, eventRows, cluster, nextId, opsStarted>>

-----------------------------------------------------------------------------
(* DeploymentService::create_k8s_resources *)

(* EnvVar { name, value: Some(value) } *)
EnvValue(name, value) ==
    [name |-> name, source |-> "value", value |-> value, secret_name |-> <<>>, key |-> ""]

(* EnvVar { name, value_from: secret_key_ref { name: secret_name, key } } *)
EnvSecretKeyRef(name, secret_name, key) ==
    [name |-> name, source |-> "secretKeyRef", value |-> "", secret_name |-> secret_name,
     key |-> key]

(* container_env: the regular env vars by value, then one reference into    *)
(* the secret object per secret key.                                        *)
ContainerEnv(cname, env_vars, secrets) ==
    {EnvValue(k, env_vars[k]) : k \in DOMAIN env_vars}
        \cup {EnvSecretKeyRef(k, SecretName(cname), k) : k \in DOMAIN secrets}

(* NewObject with every secret pushed into the workload's env as a literal *)
(* value.                                                                    *)
NewObject_InlineSecrets(kind, row, external_url, env_vars, secrets) ==
    [kind |-> kind, name |-> ObjectName(kind, row.cluster_deployment_name),
     replicas |-> IF kind = "Deployment" THEN row.replicas ELSE 0,
     host |-> IF kind = "Ingress" THEN external_url ELSE <<>>,
     env |-> IF kind = "Deployment"
               THEN {EnvValue(k, env_vars[k]) : k \in DOMAIN env_vars}
                      \cup {EnvValue(k, secrets[k]) : k \in DOMAIN secrets}
               ELSE {},
     data |-> IF kind = "Secret" THEN secrets ELSE <<>>]

(* The object a create call of composition posts: the secret holds the     *)
(* plaintext pairs, the workload the replica count and the container env,   *)
(* the ingress the external url as the host of its rule.                    *)
NewObject(kind, row, external_url, env_vars, secrets) ==
    [kind |-> kind, name |-> ObjectName(kind, row.cluster_deployment_name),
     replicas |-> IF kind = "Deployment" THEN row.replicas ELSE 0,
     host |-> IF kind = "Ingress" THEN external_url ELSE <<>>,
     env |-> IF kind = "Deployment"
               THEN ContainerEnv(row.cluster_deployment_name, env_vars, secrets)
               ELSE {},
     data |-> IF kind = "Secret" THEN secrets ELSE <<>>]

(* ComposeStep with a compensating pass: when a create fails, the objects   *)
(* already created for the deployment are deleted again.                    *)
ComposeStep_Compensate(c, pc, kind, call, nextpc) ==
    /\ At(c, "create", pc)
    /\ \E ok \in Outcomes :
          /\ Charge(ok)
          /\ IF ok /\ ~Exists(kind, ObjectName(kind, calls[c].deployment.cluster_deployment_name))
            THEN /\ cluster' = cluster \cup {NewObject(kind, calls[c].deployment,
                                                            calls[c].external_url,
                                                            calls[c].env_vars, calls[c].secrets)}
                 /\ calls' = [calls EXCEPT ![c] =
                               [@ EXCEPT !.pc = nextpc, !.trace = Append(@, K8s(call, 0, TRUE))]]
            ELSE /\ calls' = [calls EXCEPT ![c] =
                               Return(@, "InternalError", K8s(call, 0, FALSE))]
                 /\ cluster' = {o \in cluster :
                                  o.name \notin {calls[c].deployment.cluster_deployment_name,
                                                 SecretName(calls[c].deployment.cluster_deployment_name)}}
    /\ UNCHANGED <<keyOk, deployments, secretRows, eventRows, nextId, opsStarted>>

(* ComposeStep with the result dropped (let _ = api.create(..).await): a    *)
(* failed create does not end the composition.                               *)
ComposeStep_Continue(c, pc, kind, call, nextpc) ==
    /\ At(c, "create", pc)
    /\ \E ok \in Outcomes :
          LET created == ok /\ ~Exists(kind, ObjectName(kind,
                                                       calls[c].deployment.cluster_deployment_name))
          IN /\ Charge(ok)
             /\ cluster' = IF created
                             THEN cluster \cup {NewObject(kind, calls[c].deployment,
                                                          calls[c].external_url,
                                                          calls[c].env_vars, calls[c].secrets)}
                             ELSE cluster
             /\ calls' = [calls EXCEPT ![c] =
                           [@ EXCEPT !.pc = nextpc, !.trace = Append(@, K8s(call, 0, created))]]
    /\ UNCHANGED <<keyOk, deployments, secretRows, eventRows, nextId, opsStarted>>

(* api.create(&PostParams::default(), &obj).await.map_err(InternalError)?   *)
(* The cluster refuses a create whose name is taken; any create may fail.   *)
ComposeStep(c, pc, kind, call, nextpc) ==
    /\ At(c, "create", pc)
    /\ \E ok \in Outcomes :
          /\ Charge(ok)
          /\ IF ok /\ ~Exists(kind, ObjectName(kind, calls[c].deployment.cluster_deployment_name))
            THEN /\ cluster' = cluster \cup {NewObject(kind, calls[c].deployment,
                                                            calls[c].external_url,
                                                            calls[c].env_vars, calls[c].secrets)}
                 /\ calls' = [calls EXCEPT ![c] =
                               [@ EXCEPT !.pc = nextpc, !.trace = Append(@, K8s(call, 0, TRUE))]]
            ELSE /\ calls' = [calls EXCEPT ![c] =
                               Return(@, "InternalError", K8s(call, 0, FALSE))]
                 /\ UNCHANGED cluster
    /\ UNCHANGED <<keyOk, deployments, secretRows, eventRows, nextId, opsStarted>>

CreateK8sSecret(c) == ComposeStep(c, "k8s_secret", "Secret", "create_secret", "k8s_deployment")

CreateK8sDeployment(c) ==
    ComposeStep(c, "k8s_deployment", "Deployment", "create_deployment", "k8s_service")

CreateK8sService(c) == ComposeStep(c, "k8s_service", "Service", "create_service", "k8s_ingress")

CreateK8sIngress(c) == ComposeStep(c, "k8s_ingress", "Ingress", "create_ingress", "event")

(* deployment_events.deployment_id references deployments: an event can be  *)
(* inserted only for a row that exists.                                      *)
EventInsertable(deployment_id) == deployments[deployment_id] # NoRow

(* InsertEvent as an upsert that keeps one event per deployment. *)
InsertEvent_Overwrite(deployment_id, event_type) ==
    [eventRows EXCEPT ![deployment_id] = <<event_type>>]

(* INSERT INTO deployment_events (deployment_id, event_type, message)       *)
InsertEvent(deployment_id, event_type) ==
    [eventRows EXCEPT ![deployment_id] = Append(@, event_type)]

(* DeploymentEventRepository::create(pool, deployment.id, "deployment_created", ..).await? *)
CreateLogEvent(c) ==
    /\ At(c, "create", "event")
    /\ \E ok \in Outcomes :
          /\ Charge(ok)
          /\ IF ok /\ EventInsertable(calls[c].id)
            THEN /\ eventRows' = InsertEvent(calls[c].id, "deployment_created")
                 /\ calls' = [calls EXCEPT ![c] =
                               [@ EXCEPT !.pc = "status",
                                         !.trace = Append(@, Ledger("insert_event", TRUE))]]
            ELSE /\ calls' = [calls EXCEPT ![c] =
                               Return(@, "SqlxError", Ledger("insert_event", FALSE))]
                 /\ UNCHANGED eventRows
    /\ UNCHANGED <<keyOk, deployments, secretRows, cluster, nextId, opsStarted>>

(* update_status whose UPDATE matches no row. *)
UpdateStatus_NoRowMatched(deployment_id, status) == deployments

(* UPDATE deployments SET status = $2 WHERE id = $1                          *)
UpdateStatus(deployment_id, status) ==
    IF deployments[deployment_id] = NoRow
      THEN deployments
      ELSE [deployments EXCEPT ![deployment_id].status = status]

(* DeploymentRepository::update_status(pool, deployment.id, Running).await?; Ok(DeploymentResponse {..}) *)
CreateUpdateStatus(c) ==
    /\ At(c, "create", "status")
    /\ \E ok \in Outcomes :
          /\ Charge(ok)
          /\ IF ok
            THEN /\ deployments' = UpdateStatus(calls[c].id, "Running")
                 /\ calls' = [calls EXCEPT ![c] =
                               [@ EXCEPT !.pc = "done", !.result = "Ok", !.status = "Running",
                                         !.response_url = calls[c].external_url,
                                         !.trace = Append(@, Ledger("update_status", TRUE))]]
            ELSE /\ calls' = [calls EXCEPT ![c] =
                               Return(@, "SqlxError", Ledger("update_status", FALSE))]
                 /\ UNCHANGED deployments
    /\ UNCHANGED <<keyOk, secretRows, eventRows, cluster, nextId, opsStarted>>

-----------------------------------------------------------------------------
(* DeploymentService::scale *)

StartScale(c, limit) ==
    /\ CanStart(c, limit)
    /\ \E deployment_id \in KnownIds, user_id \in Users, new_replicas \in Replicas :
          calls' = [calls EXCEPT ![c] =
                      [IdleCall EXCEPT !.op = "scale", !.pc = "update_replicas",
                                       !.user_id = user_id, !.id = deployment_id,
                                       !.replicas = new_replicas]]
    /\ opsStarted' = opsStarted + 1
    /\ UNCHANGED <<keyOk, deployments, secretRows, eventRows, cluster, nextId, faults>>

(* scale with the UPDATE also resetting the status column.                   *)
ScaleUpdateReplicas_ResetStatus(c) ==
    /\ At(c, "scale", "update_replicas")
    /\ \E ok \in Outcomes :
          /\ Charge(ok)
          /\ IF ok /\ OwnedRow(calls[c].id, calls[c].user_id)
            THEN /\ deployments' = [deployments EXCEPT ![calls[c].id].replicas = calls[c].replicas,
                                                       ![calls[c].id].status = "Pending"]
                 /\ calls' = [calls EXCEPT ![c] =
                               [@ EXCEPT !.pc = "patch",
                                         !.deployment = deployments'[calls[c].id],
                                         !.trace = Append(@, Ledger("update_replicas", TRUE))]]
            ELSE /\ calls' = [calls EXCEPT ![c] =
                               Return(@, "SqlxError", Ledger("update_replicas", FALSE))]
                 /\ UNCHANGED deployments
    /\ UNCHANGED <<keyOk, secretRows, eventRows, cluster, nextId, opsStarted>>

(* scale with the two updates swapped: the workload is patched first, the   *)
(* ledger updated second.                                                    *)
ScaleUpdateReplicas_PatchFirst(c) ==
    /\ At(c, "scale", "update_replicas")
    /\ \E ok \in Outcomes :
          /\ Charge(ok)
          /\ IF OwnedRow(calls[c].id, calls[c].user_id)
               THEN LET name == deployments[calls[c].id].cluster_deployment_name
                        patched == K8s("patch_deployment", calls[c].replicas,
                                       Exists("Deployment", name))
                    IN /\ cluster' = {IF o.kind = "Deployment" /\ o.name = name
                                        THEN [o EXCEPT !.replicas = calls[c].replicas]
                                        ELSE o : o \in cluster}
                       /\ deployments' = IF ok
                                           THEN [deployments EXCEPT
                                                   ![calls[c].id].replicas = calls[c].replicas]
                                           ELSE deployments
                       /\ calls' = [calls EXCEPT ![c] =
                                     IF ok
                                       THEN [@ EXCEPT !.pc = "event",
                                                      !.deployment = deployments'[calls[c].id],
                                                      !.trace = @ \o <<patched,
                                                                      Ledger("update_replicas", TRUE)>>]
                                       ELSE Return([@ EXCEPT !.trace = Append(@, patched)],
                                                   "SqlxError", Ledger("update_replicas", FALSE))]
               ELSE /\ calls' = [calls EXCEPT ![c] =
                                  Return(@, "SqlxError", Ledger("update_replicas", FALSE))]
                    /\ UNCHANGED <<deployments, cluster>>
    /\ UNCHANGED <<keyOk, secretRows, eventRows, nextId, opsStarted>>

(* DeploymentRepository::update_replicas(pool, deployment_id, user_id, new_replicas).await? *)
(* fetch_one: no row matched is the error RowNotFound.                       *)
ScaleUpdateReplicas(c) ==
    /\ At(c, "scale", "update_replicas")
    /\ \E ok \in Outcomes :
          /\ Charge(ok)
          /\ IF ok /\ OwnedRow(calls[c].id, calls[c].user_id)
            THEN /\ deployments' = [deployments EXCEPT ![calls[c].id].replicas = calls[c].replicas]
                 /\ calls' = [calls EXCEPT ![c] =
                               [@ EXCEPT !.pc = "patch",
                                         !.deployment = deployments'[calls[c].id],
                                         !.trace = Append(@, Ledger("update_replicas", TRUE))]]
            ELSE /\ calls' = [calls EXCEPT ![c] =
                               Return(@, "SqlxError", Ledger("update_replicas", FALSE))]
                 /\ UNCHANGED deployments
    /\ UNCHANGED <<keyOk, secretRows, eventRows, cluster, nextId, opsStarted>>

(* A patch the cluster accepts without changing the workload. *)
PatchReplicas_Unapplied(name, n) == cluster

(* Strategic patch {"spec": {"replicas": n}} of the named workload.          *)
PatchReplicas(name, n) ==
    {IF o.kind = "Deployment" /\ o.name = name THEN [o EXCEPT !.replicas = n] ELSE o : o \in cluster}

(* ScalePatch that undoes the ledger update when the patch fails.           *)
ScalePatch_Rollback(c) ==
    /\ At(c, "scale", "patch")
    /\ \E ok \in Outcomes :
          /\ Charge(ok)
          /\ IF ok /\ Exists("Deployment", calls[c].deployment.cluster_deployment_name)
            THEN /\ cluster' = PatchReplicas(calls[c].deployment.cluster_deployment_name,
                                             calls[c].replicas)
                 /\ calls' = [calls EXCEPT ![c] =
                               [@ EXCEPT !.pc = "event",
                                         !.trace = Append(@, K8s("patch_deployment",
                                                                 calls[c].replicas, TRUE))]]
                 /\ UNCHANGED deployments
            ELSE /\ calls' = [calls EXCEPT ![c] =
                               Return(@, "InternalError",
                                      K8s("patch_deployment", calls[c].replicas, FALSE))]
                 /\ deployments' =
                       [deployments EXCEPT ![calls[c].id].replicas =
                           IF \E o \in cluster : o.kind = "Deployment"
                                 /\ o.name = calls[c].deployment.cluster_deployment_name
                             THEN (CHOOSE o \in cluster : o.kind = "Deployment"
                                     /\ o.name = calls[c].deployment.cluster_deployment_name).replicas
                             ELSE 0]
                 /\ UNCHANGED cluster
    /\ UNCHANGED <<keyOk, secretRows, eventRows, nextId, opsStarted>>

(* deployments_api.patch(name, .., Patch::Strategic(patch)).await.map_err(InternalError)? *)
ScalePatch(c) ==
    /\ At(c, "scale", "patch")
    /\ \E ok \in Outcomes :
          /\ Charge(ok)
          /\ IF ok /\ Exists("Deployment", calls[c].deployment.cluster_deployment_name)
            THEN /\ cluster' = PatchReplicas(calls[c].deployment.cluster_deployment_name,
                                             calls[c].replicas)
                 /\ calls' = [calls EXCEPT ![c] =
                               [@ EXCEPT !.pc = "event",
                                         !.trace = Append(@, K8s("patch_deployment",
                                                                 calls[c].replicas, TRUE))]]
            ELSE /\ calls' = [calls EXCEPT ![c] =
                               Return(@, "InternalError",
                                      K8s("patch_deployment", calls[c].replicas, FALSE))]
                 /\ UNCHANGED cluster
    /\ UNCHANGED <<keyOk, deployments, secretRows, eventRows, nextId, opsStarted>>

(* DeploymentEventRepository::create(pool, deployment.id, "deployment_scaled", ..).await?; Ok(DeploymentResponse {..}) *)
ScaleLogEvent(c) ==
    /\ At(c, "scale", "event")
    /\ \E ok \in Outcomes :
          /\ Charge(ok)
          /\ IF ok /\ EventInsertable(calls[c].id)
            THEN /\ eventRows' = InsertEvent(calls[c].id, "deployment_scaled")
                 /\ calls' = [calls EXCEPT ![c] =
                               [@ EXCEPT !.pc = "done", !.result = "Ok",
                                         !.status = calls[c].deployment.status,
                                         !.trace = Append(@, Ledger("insert_event", TRUE))]]
            ELSE /\ calls' = [calls EXCEPT ![c] =
                               Return(@, "SqlxError", Ledger("insert_event", FALSE))]
                 /\ UNCHANGED eventRows
    /\ UNCHANGED <<keyOk, deployments, secretRows, cluster, nextId, opsStarted>>

-----------------------------------------------------------------------------
(* DeploymentService::delete *)

StartDelete(c, limit) ==
    /\ CanStart(c, limit)
    /\ \E deployment_id \in KnownIds, user_id \in Users :
          calls' = [calls EXCEPT ![c] =
                      [IdleCall EXCEPT !.op = "delete", !.pc = "get_by_id",
                                       !.user_id = user_id, !.id = deployment_id]]
    /\ opsStarted' = opsStarted + 1
    /\ UNCHANGED <<keyOk, deployments, secretRows, eventRows, cluster, nextId, faults>>

(* DeploymentRepository::get_by_id(pool, deployment_id, user_id).await?      *)
DeleteGetById(c) ==
    /\ At(c, "delete", "get_by_id")
    /\ \E ok \in Outcomes :
          /\ Charge(ok)
          /\ calls' = [calls EXCEPT ![c] =
             IF ok /\ OwnedRow(calls[c].id, calls[c].user_id)
               THEN [@ EXCEPT !.pc = "k8s_ingress", !.deployment = deployments[calls[c].id],
                              !.trace = Append(@, Ledger("get_by_id", TRUE))]
               ELSE Return(@, "SqlxError", Ledger("get_by_id", FALSE))]
    /\ UNCHANGED <<keyOk, deployments, secretRows, eventRows, cluster, nextId, opsStarted>>

(* DeleteStep with the error propagated (api.delete(..).await?): a failed   *)
(* cluster delete ends the call.                                            *)
DeleteStep_Propagate(c, pc, kind, call, nextpc) ==
    /\ At(c, "delete", pc)
    /\ \E ok \in Outcomes :
          LET name == ObjectName(kind, calls[c].deployment.cluster_deployment_name)
              done == ok /\ Exists(kind, name)
          IN /\ Charge(ok)
             /\ cluster' = IF done
                             THEN {o \in cluster : ~(o.kind = kind /\ o.name = name)}
                             ELSE cluster
             /\ calls' = [calls EXCEPT ![c] =
                           IF done
                             THEN [@ EXCEPT !.pc = nextpc,
                                            !.trace = Append(@, K8s(call, 0, TRUE))]
                             ELSE Return(@, "InternalError", K8s(call, 0, FALSE))]
    /\ UNCHANGED <<keyOk, deployments, secretRows, eventRows, nextId, opsStarted>>

(* let _ = api.delete(name, &delete_params).await;  The result is dropped:  *)
(* the call goes on whether the cluster deleted the object or not.          *)
DeleteStep(c, pc, kind, call, nextpc) ==
    /\ At(c, "delete", pc)
    /\ \E ok \in Outcomes :
          LET name == ObjectName(kind, calls[c].deployment.cluster_deployment_name)
              done == ok /\ Exists(kind, name)
          IN /\ Charge(ok)
             /\ cluster' = IF done
                             THEN {o \in cluster : ~(o.kind = kind /\ o.name = name)}
                             ELSE cluster
             /\ calls' = [calls EXCEPT ![c] =
                           [@ EXCEPT !.pc = nextpc, !.trace = Append(@, K8s(call, 0, done))]]
    /\ UNCHANGED <<keyOk, deployments, secretRows, eventRows, nextId, opsStarted>>

DeleteK8sIngress(c) == DeleteStep(c, "k8s_ingress", "Ingress", "delete_ingress", "k8s_service")

DeleteK8sService(c) == DeleteStep(c, "k8s_service", "Service", "delete_service", "k8s_deployment")

DeleteK8sDeployment(c) ==
    DeleteStep(c, "k8s_deployment", "Deployment", "delete_deployment", "k8s_secret")

DeleteK8sSecret(c) == DeleteStep(c, "k8s_secret", "Secret", "delete_secret", "ledger_delete")

(* A DELETE whose WHERE clause matches no row. *)
DeleteRow_NoRowMatched(deployment_id) == deployments

(* A delete that keeps the row and marks it: UPDATE .. SET status = Terminated. *)
DeleteRow_MarkTerminated(deployment_id) ==
    [deployments EXCEPT ![deployment_id].status = "Terminated"]

(* DELETE FROM deployments d USING projects p WHERE d.id = $1 AND d.project_id = p.id AND p.owner_id = $2 *)
DeleteRow(deployment_id) == [deployments EXCEPT ![deployment_id] = NoRow]

(* DeploymentRepository::delete(pool, deployment_id, user_id).await?; Ok(()) *)
DeleteLedger(c) ==
    /\ At(c, "delete", "ledger_delete")
    /\ \E ok \in Outcomes :
          /\ Charge(ok)
          /\ IF ok
            THEN /\ IF OwnedRow(calls[c].id, calls[c].user_id)
                      THEN /\ deployments' = DeleteRow(calls[c].id)
                           /\ secretRows' = CascadeSecrets(calls[c].id)
                           /\ eventRows' = CascadeEvents(calls[c].id)
                      ELSE UNCHANGED <<deployments, secretRows, eventRows>>
                 /\ calls' = [calls EXCEPT ![c] =
                               [@ EXCEPT !.pc = "done", !.result = "Ok",
                                         !.trace = Append(@, Ledger("delete_row", TRUE))]]
            ELSE /\ calls' = [calls EXCEPT ![c] =
                               Return(@, "SqlxError", Ledger("delete_row", FALSE))]
                 /\ UNCHANGED <<deployments, secretRows, eventRows>>
    /\ UNCHANGED <<keyOk, cluster, nextId, opsStarted>>

-----------------------------------------------------------------------------
(* DeploymentService::get_detail *)

StartDetail(c, limit) ==
    /\ CanStart(c, limit)
    /\ \E deployment_id \in KnownIds, user_id \in Users :
          calls' = [calls EXCEPT ![c] =
                      [IdleCall EXCEPT !.op = "detail", !.pc = "get_by_id",
                                       !.user_id = user_id, !.id = deployment_id]]
    /\ opsStarted' = opsStarted + 1
    /\ UNCHANGED <<keyOk, deployments, secretRows, eventRows, cluster, nextId, faults>>

(* DeploymentRepository::get_by_id(pool, deployment_id, user_id).await?      *)
DetailGetById(c) ==
    /\ At(c, "detail", "get_by_id")
    /\ \E ok \in Outcomes :
          /\ Charge(ok)
          /\ calls' = [calls EXCEPT ![c] =
             IF ok /\ OwnedRow(calls[c].id, calls[c].user_id)
               THEN [@ EXCEPT !.pc = "get_secrets", !.deployment = deployments[calls[c].id],
                              !.trace = Append(@, Ledger("get_by_id", TRUE))]
               ELSE Return(@, "SqlxError", Ledger("get_by_id", FALSE))]
    /\ UNCHANGED <<keyOk, deployments, secretRows, eventRows, cluster, nextId, opsStarted>>

(* SELECT * FROM deployment_secrets WHERE deployment_id = $1: whole rows,   *)
(* the value column included.                                               *)
GetAllByDeployment(deployment_id) == {r \in secretRows : r.deployment_id = deployment_id}

(* DeploymentSecretRepository::get_all_by_deployment(pool, deployment_id).await?; *)
(* secret_keys = secrets.into_iter().map(|s| s.key).collect(); Ok(DeploymentDetailResponse {..}) *)
DetailGetSecrets(c) ==
    /\ At(c, "detail", "get_secrets")
    /\ \E ok \in Outcomes :
          /\ Charge(ok)
          /\ calls' = [calls EXCEPT ![c] =
             IF ok
               THEN [@ EXCEPT !.pc = "done", !.result = "Ok",
                              !.status = calls[c].deployment.status,
                              !.fetched = GetAllByDeployment(calls[c].id),
                              !.secret_keys = {r.key : r \in GetAllByDeployment(calls[c].id)},
                              !.trace = Append(@, Ledger("get_secrets", TRUE))]
               ELSE Return(@, "SqlxError", Ledger("get_secrets", FALSE))]
    /\ UNCHANGED <<keyOk, deployments, secretRows, eventRows, cluster, nextId, opsStarted>>

-----------------------------------------------------------------------------
(* One step of the call in slot c; at most `limit` calls are started. *)
Step(c, limit) ==
    \/ StartCreate(c, limit)
    \/ CreateBegin(c)
    \/ CreateInsert(c)
    \/ CreateSecretRow(c)
    \/ CreateCommit(c)
    \/ CreateK8sSecret(c)
    \/ CreateK8sDeployment(c)
    \/ CreateK8sService(c)
    \/ CreateK8sIngress(c)
    \/ CreateLogEvent(c)
    \/ CreateUpdateStatus(c)
    \/ StartScale(c, limit)
    \/ ScaleUpdateReplicas(c)
    \/ ScalePatch(c)
    \/ ScaleLogEvent(c)
    \/ StartDelete(c, limit)
    \/ DeleteGetById(c)
    \/ DeleteK8sIngress(c)
    \/ DeleteK8sService(c)
    \/ DeleteK8sDeployment(c)
    \/ DeleteK8sSecret(c)
    \/ DeleteLedger(c)
    \/ StartDetail(c, limit)
    \/ DetailGetById(c)
    \/ DetailGetSecrets(c)

(* Calls interleave at every await. *)
Next == (\E c \in Calls : Step(c, MaxOps)) /\ UNCHANGED stream

Spec == Init /\ [][Next]_vars

(* Calls run one at a time, each to completion before the next starts:    *)
(* the state in which a call is done is the state it returns in.          *)
NextSeq == Step(1, MaxOps) /\ UNCHANGED stream

SpecSeq == Init /\ [][NextSeq]_vars

(* One create at a time and nothing else, over the wider set of requests.  *)
NextCreate ==
    /\ \/ StartCreateFrom(1, MaxCreates, RequestNames, RequestSubdomains)
       \/ CreateBegin(1)
       \/ CreateInsert(1)
       \/ CreateSecretRow(1)
       \/ CreateCommit(1)
       \/ CreateK8sSecret(1)
       \/ CreateK8sDeployment(1)
       \/ CreateK8sService(1)
       \/ CreateK8sIngress(1)
       \/ CreateLogEvent(1)
       \/ CreateUpdateStatus(1)
    /\ UNCHANGED stream

SpecCreate == Init /\ [][NextCreate]_vars

(* One create, run to its end, and then scale calls that interleave at     *)
(* every await.                                                            *)
MaxScales == 2

CreateReturned == opsStarted >= 1 /\ \A d \in Calls : calls[d].op = "create" => calls[d].pc = "done"

NextScale ==
    /\ \/ StartCreate(1, 1)
       \/ CreateBegin(1)
       \/ CreateInsert(1)
       \/ CreateSecretRow(1)
       \/ CreateCommit(1)
       \/ CreateK8sSecret(1)
       \/ CreateK8sDeployment(1)
       \/ CreateK8sService(1)
       \/ CreateK8sIngress(1)
       \/ CreateLogEvent(1)
       \/ CreateUpdateStatus(1)
       \/ \E c \in Calls :
             \/ CreateReturned /\ StartScale(c, 1 + MaxScales)
             \/ ScaleUpdateReplicas(c)
             \/ ScalePatch(c)
             \/ ScaleLogEvent(c)
    /\ UNCHANGED stream

SpecScale == Init /\ [][NextScale]_vars

-----------------------------------------------------------------------------
(* Live status: watch_deployment / handle_socket (features/websocket.rs)     *)

OrchestratorVars ==
    <<keyOk, deployments, secretRows, eventRows, cluster, calls, nextId, opsStarted>>

(* The connection as watch_deployment has read it from the request. *)
Requested(deployment_id, user_id, ok) ==
    [stream EXCEPT !.id = deployment_id, !.user_id = user_id,
                   !.ledger = Append(@, Ledger("get_by_id", ok))]

(* watch_deployment that reads the row by its id alone, whoever owns it.     *)
WatchDeployment_NoOwnerCheck ==
    /\ stream.handler = "idle"
    /\ \E deployment_id \in KnownIds, user_id \in Users, ok \in Outcomes :
          /\ Charge(ok)
          /\ stream' = IF ok /\ deployments[deployment_id] # NoRow
                         THEN [Requested(deployment_id, user_id, TRUE) EXCEPT
                                 !.handler = "open", !.send_task = "tick",
                                 !.recv_task = "next", !.connected = TRUE,
                                 !.name = deployments[deployment_id].cluster_deployment_name]
                         ELSE [Requested(deployment_id, user_id, FALSE) EXCEPT
                                 !.handler = "rejected"]
    /\ UNCHANGED OrchestratorVars

(* watch_deployment: DeploymentRepository::get_by_id(..).await?, then the   *)
(* upgrade runs handle_socket, which splits the socket and spawns the        *)
(* poller (send_task) and the listener (recv_task).                          *)
WatchDeployment ==
    /\ stream.handler = "idle"
    /\ \E deployment_id \in KnownIds, user_id \in Users, ok \in Outcomes :
          /\ Charge(ok)
          /\ stream' = IF ok /\ OwnedRow(deployment_id, user_id)
                         THEN [Requested(deployment_id, user_id, TRUE) EXCEPT
                                 !.handler = "open", !.send_task = "tick",
                                 !.recv_task = "next", !.connected = TRUE,
                                 !.name = deployments[deployment_id].cluster_deployment_name]
                         ELSE [Requested(deployment_id, user_id, FALSE) EXCEPT
                                 !.handler = "rejected"]
    /\ UNCHANGED OrchestratorVars

(* One of the spawned tasks has finished and select! has not yet run.       *)
SelectReady ==
    stream.handler = "open" /\ (stream.send_task = "ended" \/ stream.recv_task = "ended")

(* The queries of one iteration of the poller's loop, in the order of the   *)
(* loop body, as pods before status.                                         *)
TickOrder_PodsFirst == <<"pods", "status">>

(* The queries of one iteration of the poller's loop, in the order of the   *)
(* loop body: get_deployment_status, then get_pod_status.                    *)
TickOrder == <<"status", "pods">>

(* ticker.tick().await: the first tick completes at once, the later ones    *)
(* every 5 s.  Waking the handler takes no time on that scale: the timer    *)
(* does not fire while a finished task waits for select!.                    *)
PollerTick ==
    /\ stream.send_task = "tick"
    /\ stream.ticks < MaxTicks
    /\ ~SelectReady
    /\ stream' = [stream EXCEPT !.ticks = @ + 1, !.send_task = "query", !.q = 1]
    /\ UNCHANGED <<OrchestratorVars, faults>>

WorkloadReplicas(name) ==
    (CHOOSE o \in cluster : o.kind = "Deployment" /\ o.name = name).replicas

(* get_deployment_status: deployments.get(name).await? -> Status {replicas, ..} *)
GetDeploymentStatus(name, ok, tick) ==
    IF ok /\ Exists("Deployment", name)
      THEN [type |-> "status", query |-> "status", tick |-> tick, n |-> WorkloadReplicas(name)]
      ELSE [type |-> "error", query |-> "status", tick |-> tick, n |-> 0]

(* get_pod_status: pods.list(app=name).await? -> PodStatus {pods}; the pods *)
(* listed are those of the workload, none when it does not exist.            *)
GetPodStatus(name, ok, tick) ==
    IF ok
      THEN [type |-> "podStatus", query |-> "pods", tick |-> tick,
            n |-> IF Exists("Deployment", name) THEN WorkloadReplicas(name) ELSE 0]
      ELSE [type |-> "error", query |-> "pods", tick |-> tick, n |-> 0]

(* The cluster call a query makes: deployments.get(name) in                 *)
(* get_deployment_status, pods.list(&lp) in get_pod_status.                  *)
ClusterRead(query) == IF query = "status" THEN "get_deployment" ELSE "list_pods"

(* match get_..(..).await { Ok(msg) => msg, Err(e) => DeploymentMessage::Error {..} } *)
PollerQuery ==
    /\ stream.send_task = "query"
    /\ \E ok \in Outcomes :
          /\ Charge(ok)
          /\ stream' = [stream EXCEPT
                          !.send_task = "send",
                          !.k8s = @ \cup {ClusterRead(TickOrder[stream.q])},
                          !.msg = IF TickOrder[stream.q] = "status"
                                    THEN GetDeploymentStatus(stream.name, ok, stream.ticks)
                                    ELSE GetPodStatus(stream.name, ok, stream.ticks)]
    /\ UNCHANGED OrchestratorVars

(* After a send: the next query of this iteration, or the next tick. *)
Advance(st) ==
    IF st.q < Len(TickOrder)
      THEN [st EXCEPT !.q = @ + 1, !.send_task = "query", !.msg = NoMsg]
      ELSE [st EXCEPT !.q = 0, !.send_task = "tick", !.msg = NoMsg]

(* PollerSend that breaks when the send succeeded. *)
PollerSend_BreakOnOk ==
    /\ stream.send_task = "send"
    /\ \E accepted \in (IF stream.connected THEN {TRUE} ELSE BOOLEAN) :
          stream' =
             CASE accepted /\ stream.msg.type # "error" ->
                    [stream EXCEPT !.sent = Append(@, stream.msg), !.send_task = "ended",
                                   !.msg = NoMsg]
               [] accepted -> Advance([stream EXCEPT !.sent = Append(@, stream.msg)])
               [] OTHER -> Advance(stream)
    /\ UNCHANGED <<OrchestratorVars, faults>>

(* PollerSend that breaks after the Error message of a failed query. *)
PollerSend_BreakOnError ==
    /\ stream.send_task = "send"
    /\ \E accepted \in (IF stream.connected THEN {TRUE} ELSE BOOLEAN) :
          stream' =
             CASE stream.msg.type = "error" ->
                    [stream EXCEPT !.sent = IF accepted THEN Append(@, stream.msg) ELSE @,
                                   !.send_task = "ended", !.msg = NoMsg]
               [] accepted -> Advance([stream EXCEPT !.sent = Append(@, stream.msg)])
               [] OTHER -> [stream EXCEPT !.send_task = "ended", !.msg = NoMsg]
    /\ UNCHANGED <<OrchestratorVars, faults>>

(* if sender.send(Message::Text(json)).await.is_err() { break; } for a      *)
(* Status / PodStatus message; let _ = sender.send(..).await for an Error    *)
(* message.  A send to a connected client succeeds; to a client that has     *)
(* gone it fails, or is still accepted by the transport.                     *)
PollerSend ==
    /\ stream.send_task = "send"
    /\ \E accepted \in (IF stream.connected THEN {TRUE} ELSE BOOLEAN) :
          stream' =
             CASE accepted -> Advance([stream EXCEPT !.sent = Append(@, stream.msg)])
               [] ~accepted /\ stream.msg.type = "error" -> Advance(stream)
               [] OTHER -> [stream EXCEPT !.send_task = "ended", !.msg = NoMsg]
    /\ UNCHANGED <<OrchestratorVars, faults>>

(* while let Some(Ok(msg)) = receiver.next().await { .. }: a client message *)
(* is read and discarded.                                                    *)
ListenerRecv ==
    /\ stream.recv_task = "next"
    /\ stream.inbox > 0
    /\ stream' = [stream EXCEPT !.inbox = @ - 1]
    /\ UNCHANGED <<OrchestratorVars, faults>>

(* receiver.next().await is None (or an error) once the client has gone:    *)
(* the loop ends and the task finishes.                                      *)
ListenerEnd ==
    /\ stream.recv_task = "next"
    /\ stream.inbox = 0
    /\ ~stream.connected
    /\ stream' = [stream EXCEPT !.recv_task = "ended"]
    /\ UNCHANGED <<OrchestratorVars, faults>>

Aborted(task) == IF task = "ended" THEN "ended" ELSE "aborted"

(* select! that only waits: neither branch aborts the other task. *)
Select_NoAbort ==
    /\ SelectReady
    /\ stream' = [stream EXCEPT !.handler = "closed"]
    /\ UNCHANGED <<OrchestratorVars, faults>>

(* tokio::select! { _ = &mut send_task => recv_task.abort(),                 *)
(*                  _ = &mut recv_task => send_task.abort() }                *)
(* then handle_socket returns.  An aborted task is dropped at the await it   *)
(* is suspended at.                                                          *)
Select ==
    /\ SelectReady
    /\ stream' = [stream EXCEPT !.handler = "closed",
                                !.send_task = Aborted(@), !.recv_task = Aborted(@)]
    /\ UNCHANGED <<OrchestratorVars, faults>>

(* The client sends a text frame. *)
ClientText ==
    /\ stream.handler = "open"
    /\ stream.connected
    /\ stream.inbox < MaxInbox
    /\ stream' = [stream EXCEPT !.inbox = @ + 1]
    /\ UNCHANGED <<OrchestratorVars, faults>>

(* The client closes the connection. *)
ClientDisconnect ==
    /\ stream.handler = "open"
    /\ stream.connected
    /\ stream' = [stream EXCEPT !.connected = FALSE]
    /\ UNCHANGED <<OrchestratorVars, faults>>

Poller == PollerTick \/ PollerQuery \/ PollerSend

Listener == ListenerRecv \/ ListenerEnd

(* Deployments are created (one call at a time) before the connection is    *)
(* made; then the connection runs.                                           *)
NextStream ==
    \/ stream.handler = "idle" /\ Step(1, MaxStreamOps) /\ UNCHANGED stream
    \/ WatchDeployment
    \/ Poller
    \/ Listener
    \/ Select
    \/ ClientText
    \/ ClientDisconnect

SpecStream == Init /\ [][NextStream]_vars

(* tokio schedules every spawned task that can run, and the handler.        *)
SpecStreamFair ==
    SpecStream /\ WF_vars(Poller) /\ WF_vars(Listener) /\ WF_vars(Select)

-----------------------------------------------------------------------------
(* Properties *)

Trace(c) == calls[c].trace

Done(c, op) == calls[c].op = op /\ calls[c].pc = "done"

IsK8s(e) == e.sys = "k8s"

K8sCalls(c) == SelectSeq(Trace(c), IsK8s)

Has(c, entry) == \E i \in 1..Len(Trace(c)) : Trace(c)[i] = entry

(* C1: in every execution of create, no cluster create call is issued       *)
(* before the ledger transaction with the Deployment row and its secret     *)
(* rows has committed: every cluster call in a create's trace comes after   *)
(* its successful commit, and nothing is left uncommitted by then.          *)
C1_LedgerFirst ==
    \A c \in Calls :
        calls[c].op = "create" =>
            \A i \in 1..Len(Trace(c)) :
                IsK8s(Trace(c)[i]) =>
                    /\ \E j \in 1..(i - 1) : Trace(c)[j] = Ledger("commit", TRUE)
                    /\ calls[c].tx = NoTx

(* A create that has created a cluster object. *)
C1_Witness ==
    \E c \in Calls :
        /\ calls[c].op = "create"
        /\ \E i \in 1..Len(Trace(c)) : IsK8s(Trace(c)[i]) /\ Trace(c)[i].ok

(* The cluster create calls of a composition, in the order of the code. *)
ComposeCalls(secrets) ==
    (IF DOMAIN secrets = {} THEN <<>> ELSE <<K8s("create_secret", 0, TRUE)>>)
        \o <<K8s("create_deployment", 0, TRUE), K8s("create_service", 0, TRUE),
             K8s("create_ingress", 0, TRUE)>>

KindOf(call) ==
    CASE call = "create_secret" -> "Secret"
      [] call = "create_deployment" -> "Deployment"
      [] call = "create_service" -> "Service"
      [] OTHER -> "Ingress"

Last(seq) == seq[Len(seq)]

SecretRowsOf(deployment_id) == {r \in secretRows : r.deployment_id = deployment_id}

(* The create in slot c returned because a step of its transaction failed:  *)
(* begin, the deployment insert, a secret's encryption or insert, commit.   *)
TxFailed(c) ==
    /\ Done(c, "create")
    /\ \/ /\ Trace(c) # <<>>
          /\ Last(Trace(c)).sys = "ledger" /\ ~Last(Trace(c)).ok
          /\ Last(Trace(c)).call \in {"begin", "insert_deployment", "insert_secret", "commit"}
       \/ calls[c].result = "EncryptionFailed" /\ Has(c, Ledger("insert_deployment", TRUE))

(* C2: if a step of create's ledger transaction fails, create returns an    *)
(* error, neither the Deployment row nor any of its DeploymentSecret rows   *)
(* is persisted, and no cluster call is made.                               *)
C2_TxAllOrNothing ==
    \A c \in Calls :
        TxFailed(c) =>
            /\ calls[c].result \in {"SqlxError", "EncryptionFailed"}
            /\ K8sCalls(c) = <<>>
            /\ calls[c].id # 0 =>
                  /\ deployments[calls[c].id] = NoRow
                  /\ SecretRowsOf(calls[c].id) = {}
            /\ \A i \in Ids : i >= nextId => deployments[i] = NoRow /\ SecretRowsOf(i) = {}

(* A create whose commit failed after the row and a secret were inserted. *)
C2_Witness ==
    \E c \in Calls :
        /\ TxFailed(c)
        /\ Has(c, Ledger("insert_secret", TRUE))
        /\ Has(c, Ledger("commit", FALSE))

(* The create in slot c returned because a cluster create failed. *)
CompositionFailed(c) ==
    /\ Done(c, "create")
    /\ Trace(c) # <<>>
    /\ IsK8s(Last(Trace(c))) /\ ~Last(Trace(c)).ok

(* C3: if composition fails at any step, create returns an error, the       *)
(* ledger row still exists with status Pending (and its secret rows with    *)
(* it), and every cluster object created before the failing step is still   *)
(* there: create issues no cluster delete and no further ledger write.      *)
C3_NoRollback ==
    \A c \in Calls :
        CompositionFailed(c) =>
            /\ calls[c].result = "InternalError"
            /\ deployments[calls[c].id] # NoRow
            /\ deployments[calls[c].id].status = "Pending"
            /\ {r.key : r \in SecretRowsOf(calls[c].id)} = DOMAIN calls[c].secrets
            /\ eventRows[calls[c].id] = <<>>
            /\ \A i \in 1..Len(K8sCalls(c)) :
                  /\ K8sCalls(c)[i].call \in
                        {"create_secret", "create_deployment", "create_service", "create_ingress"}
                  /\ K8sCalls(c)[i].ok =>
                        Exists(KindOf(K8sCalls(c)[i].call),
                               ObjectName(KindOf(K8sCalls(c)[i].call),
                                          calls[c].deployment.cluster_deployment_name))

(* A create that failed at the network endpoint, after the workload was created. *)
C3_Witness ==
    \E c \in Calls :
        /\ CompositionFailed(c)
        /\ Last(Trace(c)).call = "create_service"
        /\ Has(c, K8s("create_deployment", 0, TRUE))

(* C4: whenever create, scale or delete returns an error for a deployment   *)
(* whose ledger row exists, the call has appended an audit event for it     *)
(* before returning; a composition failure in create leaves an event.       *)
C4_ErrorsAudited ==
    \A c \in Calls :
        /\ ( /\ calls[c].pc = "done"
             /\ calls[c].result \notin {"Ok", "none"}
             /\ calls[c].id \in Ids
             /\ deployments[calls[c].id] # NoRow )
           => Has(c, Ledger("insert_event", TRUE))
        /\ CompositionFailed(c) => eventRows[calls[c].id] # <<>>

Count(seq, x) == Cardinality({i \in 1..Len(seq) : seq[i] = x})

Rank(status) ==
    CASE status = "Pending" -> 1
      [] status = "Running" -> 2
      [] status \in {"Succeeded", "Failed"} -> 3
      [] OTHER -> 4

Forward(from, to) == from = to \/ Rank(from) < Rank(to)

StatusTyped == \A i \in Ids : deployments[i] # NoRow => deployments[i].status \in DeploymentStatus

StatusMonotone ==
    \A i \in Ids :
        (deployments[i] # NoRow /\ deployments'[i] # NoRow) =>
            Forward(deployments[i].status, deployments'[i].status)

(* C6: in every reachable state each row's status is one of the five        *)
(* values, and under every interleaving of create, scale and delete a       *)
(* row's status only moves forward along Pending -> Running ->              *)
(* {Succeeded | Failed} -> Terminated, never back.                          *)
C6_StatusForward == []StatusTyped /\ [][StatusMonotone]_vars

(* A row that reached Running and was then scaled. *)
C6_Witness ==
    \E c \in Calls :
        /\ Done(c, "scale") /\ calls[c].result = "Ok"
        /\ deployments[calls[c].id] # NoRow
        /\ deployments[calls[c].id].status = "Running"

FailedLedgerCall(e) == e.sys = "ledger" /\ ~e.ok

K8sBefore(c, i) == \E j \in 1..(i - 1) : IsK8s(Trace(c)[j])

(* The ledger work a call opens with: create's transaction, scale's        *)
(* update, delete's read.                                                   *)
OpeningLedgerCalls ==
    {"begin", "insert_deployment", "insert_secret", "commit", "update_replicas", "get_by_id"}

(* C7 as stated: a ledger call of create, scale or delete that fails does   *)
(* so before the call has attempted any cluster call.                       *)
C7_LedgerFailsBeforeCluster ==
    \A c \in Calls :
        calls[c].op \in {"create", "scale", "delete"} =>
            \A i \in 1..Len(Trace(c)) :
                FailedLedgerCall(Trace(c)[i]) => ~K8sBefore(c, i)

(* C7 as amended: a failure of the ledger work a call opens with (create's  *)
(* transaction, scale's update_replicas, delete's get_by_id) comes before   *)
(* any cluster call of that call; a failure of a later ledger call (event   *)
(* insert, status update, row delete) comes after the call has issued its   *)
(* cluster calls.                                                           *)
C7_OpeningLedgerFailsBeforeCluster ==
    \A c \in Calls :
        calls[c].op \in {"create", "scale", "delete"} =>
            \A i \in 1..Len(Trace(c)) :
                FailedLedgerCall(Trace(c)[i]) =>
                    (Trace(c)[i].call \in OpeningLedgerCalls <=> ~K8sBefore(c, i))

(* A delete that reported a ledger error after its four cluster deletes. *)
C7_Witness ==
    \E c \in Calls :
        /\ Done(c, "delete")
        /\ calls[c].result = "SqlxError"
        /\ Last(Trace(c)) = Ledger("delete_row", FALSE)
        /\ Len(K8sCalls(c)) = 4

Workload(name) == CHOOSE o \in cluster : o.kind = "Deployment" /\ o.name = name

OtherObjects(objs) == {o \in objs : o.kind # "Deployment"}

ScaleSucceeded(c) == Done(c, "scale") /\ calls[c].result = "Ok"

C8_State ==
    \A c \in Calls :
        ScaleSucceeded(c) =>
            /\ deployments[calls[c].id] # NoRow
            /\ deployments[calls[c].id].replicas = calls[c].replicas
            /\ K8sCalls(c) = <<K8s("patch_deployment", calls[c].replicas, TRUE)>>
            /\ Exists("Deployment", calls[c].deployment.cluster_deployment_name)
            /\ Workload(calls[c].deployment.cluster_deployment_name).replicas = calls[c].replicas
            /\ Count(Trace(c), Ledger("insert_event", TRUE)) = 1
            /\ Last(eventRows[calls[c].id]) = "deployment_scaled"

(* While a scale runs, no object other than a workload controller changes   *)
(* and no object is created or deleted.                                      *)
C8_Frame ==
    \A c \in Calls :
        (calls[c].op = "scale" /\ calls'[c].op = "scale") =>
            /\ OtherObjects(cluster') = OtherObjects(cluster)
            /\ {[kind |-> o.kind, name |-> o.name] : o \in cluster'}
                 = {[kind |-> o.kind, name |-> o.name] : o \in cluster}

(* C8: a successful scale(id, owner, N) leaves the ledger replica count at  *)
(* N, has issued exactly one cluster call, a patch of the workload          *)
(* controller with replicas = N (which then has N replicas), has appended   *)
(* one "deployment_scaled" event, and touches no network endpoint, ingress  *)
(* or secret object.                                                        *)
C8_ScaleSuccess == []C8_State /\ [][C8_Frame]_vars

(* A successful scale that changed the replica count of a running workload. *)
C8_Witness ==
    \E c \in Calls :
        /\ ScaleSucceeded(c)
        /\ calls[c].replicas = MaxReplicas
        /\ Count(eventRows[calls[c].id], "deployment_created") = 1
        /\ Exists("Service", calls[c].deployment.cluster_deployment_name)

(* The scale in slot c returned because its cluster patch failed. *)
PatchFailed(c) ==
    /\ Done(c, "scale")
    /\ Has(c, Ledger("update_replicas", TRUE))
    /\ Last(Trace(c)) = K8s("patch_deployment", calls[c].replicas, FALSE)

C9_State ==
    \A c \in Calls :
        PatchFailed(c) =>
            /\ calls[c].result = "InternalError"
            /\ deployments[calls[c].id] # NoRow
            /\ deployments[calls[c].id].replicas = calls[c].replicas

C9_Step ==
    \A c \in Calls :
        (At(c, "scale", "patch") /\ calls'[c].result = "InternalError") =>
            /\ cluster' = cluster
            /\ deployments' = deployments

(* C9: if scale's cluster patch fails after its ledger update succeeded,    *)
(* scale returns an error, the ledger replica count stays at the new value  *)
(* and the cluster is left as it was (the workload keeps its prior count).  *)
C9_PatchFailure == []C9_State /\ [][C9_Step]_vars

(* A failed patch that left the ledger at the new count and the workload at *)
(* its prior, different count.                                              *)
C9_Witness ==
    \E c \in Calls :
        /\ PatchFailed(c)
        /\ Exists("Deployment", calls[c].deployment.cluster_deployment_name)
        /\ Workload(calls[c].deployment.cluster_deployment_name).replicas # calls[c].replicas

DeleteOrder ==
    <<"get_by_id", "delete_ingress", "delete_service", "delete_deployment", "delete_secret",
      "delete_row">>

(* C10: delete first reads the row, then attempts the cluster delete of     *)
(* ingress, network endpoint, workload and secret in that order, a failed   *)
(* attempt stopping neither the remaining attempts nor the ledger delete,   *)
(* and only then deletes the ledger row; it returns success whenever the    *)
(* ledger delete succeeds, whatever the cluster deletes did.                *)
C10_DeleteBestEffort ==
    \A c \in Calls :
        calls[c].op = "delete" =>
            /\ Len(Trace(c)) <= Len(DeleteOrder)
            /\ \A i \in 1..Len(Trace(c)) : Trace(c)[i].call = DeleteOrder[i]
            /\ (Done(c, "delete") /\ Has(c, Ledger("get_by_id", TRUE))) =>
                  /\ Len(Trace(c)) = Len(DeleteOrder)
                  /\ calls[c].result = IF Last(Trace(c)).ok THEN "Ok" ELSE "SqlxError"
                  /\ Last(Trace(c)).ok => deployments[calls[c].id] = NoRow
            /\ (Done(c, "delete") /\ calls[c].result = "Ok") => Len(Trace(c)) = Len(DeleteOrder)

(* A delete that returned success although all four cluster deletes failed. *)
C10_Witness ==
    \E c \in Calls :
        /\ Done(c, "delete") /\ calls[c].result = "Ok"
        /\ \A i \in 2..5 : ~Trace(c)[i].ok

DeleteCalls == <<"delete_ingress", "delete_service", "delete_deployment", "delete_secret">>

DeletedKind(call) ==
    CASE call = "delete_ingress" -> "Ingress"
      [] call = "delete_service" -> "Service"
      [] call = "delete_deployment" -> "Deployment"
      [] OTHER -> "Secret"

(* The delete in slot c has returned, one of its cluster deletes failed and *)
(* the object that delete was for is still in the cluster.                  *)
DeleteLeftObject(c) ==
    /\ Done(c, "delete")
    /\ \E i \in 1..Len(Trace(c)) :
          /\ IsK8s(Trace(c)[i]) /\ ~Trace(c)[i].ok
          /\ Exists(DeletedKind(Trace(c)[i].call),
                    ObjectName(DeletedKind(Trace(c)[i].call),
                               calls[c].deployment.cluster_deployment_name))

(* C11: if a step of delete fails so that some cluster object of the        *)
(* deployment is not removed, the ledger row still exists after delete      *)
(* returns.                                                                 *)
C11_RowKeptForRetry ==
    \A c \in Calls : DeleteLeftObject(c) => deployments[calls[c].id] # NoRow

(* C12: after a successful delete of a deployment the ledger holds no       *)
(* Deployment row, no DeploymentSecret row and no DeploymentEvent row for   *)
(* its id.                                                                  *)
C12_DeleteRemovesRows ==
    \A c \in Calls :
        (Done(c, "delete") /\ calls[c].result = "Ok") =>
            /\ deployments[calls[c].id] = NoRow
            /\ SecretRowsOf(calls[c].id) = {}
            /\ eventRows[calls[c].id] = <<>>

(* A successful delete of a deployment that had a secret row and an event. *)
C12_Witness ==
    \E c, d \in Calls :
        /\ Done(d, "delete") /\ calls[d].result = "Ok"
        /\ calls[c].op = "create" /\ calls[c].id = calls[d].id
        /\ Has(c, Ledger("insert_secret", TRUE))
        /\ Has(c, Ledger("insert_event", TRUE))

(* AppError::into_response: the HTTP status of a call's result. *)
StatusCode(result) ==
    CASE result = "Ok" -> 200
      [] result = "NotFoundError" -> 404
      [] OTHER -> 500

(* The scale or delete in slot c was called by a user who does not own the  *)
(* project of the existing row it names.                                    *)
ForeignCall(c) ==
    /\ calls[c].op \in {"scale", "delete"}
    /\ calls[c].pc = "done"
    /\ deployments[calls[c].id] # NoRow
    /\ ProjectOwner(deployments[calls[c].id].project_id) # calls[c].user_id

(* C13: scale and delete on a deployment that exists but is owned by a      *)
(* different caller return NotFoundError (404), with no other effect, as    *)
(* for an id that does not exist.                                           *)
C13_ForeignIsNotFound ==
    \A c \in Calls :
        ForeignCall(c) =>
            /\ calls[c].result = "NotFoundError"
            /\ StatusCode(calls[c].result) = 404
            /\ K8sCalls(c) = <<>>

(* The secret values a create request can submit. *)
SubmittedValues == UNION {{m[k] : k \in DOMAIN m} : m \in SecretMaps}

(* C14: every DeploymentSecret row ever persisted holds the vault's         *)
(* ciphertext of a submitted value, never the submitted value itself.       *)
C14_SecretsEncrypted ==
    \A r \in secretRows :
        /\ r.value \notin SubmittedValues
        /\ \E v \in SubmittedValues : r.value = Encrypt(v)

(* A secret row has been persisted. *)
C14_Witness ==
    \E r \in secretRows : deployments[r.deployment_id] # NoRow

(* The step by which the create in slot c gets its object of this kind      *)
(* created.                                                                 *)
Composed(c, pc, nextpc) == At(c, "create", pc) /\ calls'[c].pc = nextpc

SecretValues(c) == {calls[c].secrets[k] : k \in DOMAIN calls[c].secrets}

(* A create issues create_secret, first, exactly when it has secrets. *)
C15_SecretIffSecrets ==
    \A c \in Calls :
        (calls[c].op = "create" /\ K8sCalls(c) # <<>>) =>
            /\ (K8sCalls(c)[1].call = "create_secret") <=> (DOMAIN calls[c].secrets # {})
            /\ \A i \in 2..Len(K8sCalls(c)) : K8sCalls(c)[i].call # "create_secret"

(* The secret object created is named <cluster_deployment_name>-secrets.   *)
C15_SecretObject ==
    \A c \in Calls :
        Composed(c, "k8s_secret", "k8s_deployment") =>
            \E o \in cluster' \ cluster :
                /\ cluster' = cluster \cup {o}
                /\ o.kind = "Secret"
                /\ o.name = calls[c].deployment.cluster_deployment_name
                              \o <<"-", "s", "e", "c", "r", "e", "t", "s">>
                /\ DOMAIN o.data = DOMAIN calls[c].secrets

(* In the workload created, every secret key has an env var that            *)
(* references the secret object by key, every reference is one of these,    *)
(* and a literal value is always a regular env var's value, never a         *)
(* secret's.                                                                *)
C15_WorkloadEnv ==
    \A c \in Calls :
        Composed(c, "k8s_deployment", "k8s_service") =>
            \E o \in cluster' \ cluster :
                /\ o.kind = "Deployment"
                /\ \A k \in DOMAIN calls[c].secrets :
                      \E e \in o.env :
                          /\ e.name = k /\ e.source = "secretKeyRef" /\ e.key = k
                          /\ e.secret_name = SecretName(calls[c].deployment.cluster_deployment_name)
                /\ \A e \in o.env :
                      IF e.source = "secretKeyRef"
                        THEN /\ e.name \in DOMAIN calls[c].secrets
                             /\ e.key = e.name
                             /\ e.value \notin SecretValues(c)
                        ELSE /\ e.name \in DOMAIN calls[c].env_vars
                             /\ e.value = calls[c].env_vars[e.name]
                             /\ e.value \notin SecretValues(c)

(* C15: composition creates a cluster secret object named                   *)
(* <resourceName>-secrets if and only if the secrets map is non-empty, and  *)
(* in the workload every secret key is an env var referencing that secret   *)
(* object by key; no secret value is placed as a literal in the workload's  *)
(* environment.                                                             *)
C15_SecretsByReference ==
    []C15_SecretIffSecrets /\ [][C15_SecretObject /\ C15_WorkloadEnv]_vars

(* A workload whose env references the secret object composed with it,      *)
(* next to a regular env var of the same name.                              *)
C15_Witness ==
    \E o, x \in cluster :
        /\ o.kind = "Deployment" /\ x.kind = "Secret" /\ x.name = SecretName(o.name)
        /\ \E e, f \in o.env :
              /\ e.source = "secretKeyRef" /\ e.secret_name = x.name
              /\ f.source = "value" /\ f.name = e.name

(* C16: the detail operation returns exactly the secret keys stored for the *)
(* deployment and no secret value, and the ledger read it is built on (the  *)
(* secrets sub-repository's list operation) returns no stored value.        *)
C16_ValuesNeverRead ==
    \A c \in Calls :
        (Done(c, "detail") /\ calls[c].result = "Ok") =>
            /\ calls[c].secret_keys = {r.key : r \in SecretRowsOf(calls[c].id)}
            /\ \A r \in calls[c].fetched : "value" \notin DOMAIN r

(* The call in slot c is awaiting a composer call of create or scale. *)
AtComposerCall(c) ==
    \/ calls[c].op = "create"
         /\ calls[c].pc \in {"k8s_secret", "k8s_deployment", "k8s_service", "k8s_ingress"}
    \/ calls[c].op = "scale" /\ calls[c].pc = "patch"

(* The composer call the call in slot c was awaiting has failed: for a     *)
(* reason outside the program (a transport error), or refused by the        *)
(* cluster.                                                                 *)
TransportFailure(c) == AtComposerCall(c) /\ calls'[c] # calls[c] /\ faults' = faults + 1

Refused(c) ==
    /\ AtComposerCall(c) /\ calls'[c] # calls[c] /\ faults' = faults
    /\ ~Last(calls'[c].trace).ok

RetriedOrOnce ==
    \A c \in Calls :
        /\ TransportFailure(c) => calls'[c].pc = calls[c].pc
        /\ Refused(c) =>
              /\ calls'[c].pc = "done"
              /\ Count([i \in 1..Len(calls'[c].trace) |-> calls'[c].trace[i].call],
                       Last(calls'[c].trace).call) = 1

(* C17: a composer call that fails with a transient transport error does    *)
(* not end the operation at once, it is issued again (a bounded number of   *)
(* times); a call that fails with a non-transient error is issued exactly   *)
(* once.                                                                    *)
C17_TransientRetried == [][RetriedOrOnce]_vars

Sent == stream.sent

(* C18: on one connection, within every tick the message for the            *)
(* workload-status query is sent before the message for the pod-status      *)
(* query, and all messages of tick k are sent before any message of tick    *)
(* k+1.                                                                     *)
C18_TickOrder ==
    \A i, j \in 1..Len(Sent) :
        i < j =>
            /\ Sent[i].tick <= Sent[j].tick
            /\ Sent[i].tick = Sent[j].tick =>
                  Sent[i].query = "status" /\ Sent[j].query = "pods"

(* Two full ticks have been sent: Status, PodStatus, then the second tick's. *)
C18_Witness ==
    /\ Len(Sent) = 4
    /\ Sent[1].type = "status" /\ Sent[2].type = "podStatus"
    /\ Sent[3].tick = 2 /\ Sent[4].tick = 2

(* The client has received a Status message followed by a PodStatus message. *)
Received ==
    /\ Len(Sent) >= 2
    /\ Sent[1].type = "status"
    /\ Sent[2].type = "podStatus"

(* No cluster query of the connection has failed so far. *)
QueriesSucceed ==
    /\ stream.msg.type # "error"
    /\ \A i \in 1..Len(Sent) : Sent[i].type # "error"

C19_BySecondTick ==
    (stream.handler = "open" /\ stream.connected /\ QueriesSucceed /\ stream.ticks >= 2)
        => Received

(* C19: on a connection to an existing deployment whose cluster queries     *)
(* succeed and whose client stays connected, the client eventually          *)
(* receives a Status message followed by a PodStatus message, and has       *)
(* received them when the second tick begins.                               *)
C19_StatusThenPods ==
    /\ []C19_BySecondTick
    /\ (stream.handler = "open") ~> (Received \/ ~stream.connected \/ ~QueriesSucceed)

(* Both messages received within the first tick, the client still connected. *)
C19_Witness ==
    /\ Received
    /\ stream.connected
    /\ stream.ticks = 1

Stopped ==
    /\ stream.send_task \in {"ended", "aborted"}
    /\ stream.recv_task \in {"ended", "aborted"}

C20_ClosedStopped == stream.handler = "closed" => Stopped

(* Once the listener has ended, or the handler has returned, no tick starts *)
(* and, after the return, nothing more is sent.                             *)
C20_NoFurtherTick ==
    /\ (stream.recv_task = "ended" \/ stream.handler = "closed") =>
          stream'.ticks = stream.ticks
    /\ stream.handler = "closed" => stream'.sent = stream.sent

AfterSend == IF stream.q < Len(TickOrder) THEN "query" ELSE "tick"

(* The poller leaves its send statement by its own step, not by an abort. *)
SendReturns ==
    /\ stream.send_task = "send"
    /\ stream'.send_task \notin {"send", "aborted"}

ErrorInPlace ==
    \A i \in 1..Len(Sent) :
        Sent[i].type = "error" => Sent[i].query \in {"status", "pods"}

KeepsRunning ==
    /\ (SendReturns /\ stream.msg.type = "error") =>
          /\ stream'.send_task = AfterSend
          /\ stream.connected => stream'.sent = Append(stream.sent, stream.msg)
    /\ (stream.send_task # "ended" /\ stream'.send_task = "ended") =>
          stream.msg.type \in {"status", "podStatus"}

(* C21: a failed status or pod query makes the poller send an Error message *)
(* in the place of that query's message and go on with the rest of the tick *)
(* and the later ticks; the poller never ends on a query failure alone, only *)
(* on the failed send of a Status or PodStatus message.                      *)
C21_ErrorKeepsPolling == []ErrorInPlace /\ [][KeepsRunning]_vars

(* The status query of tick 1 failed; the client got the Error message, the *)
(* PodStatus message of the same tick and a message of tick 2.               *)
C21_Witness ==
    /\ Len(Sent) >= 3
    /\ Sent[1].type = "error" /\ Sent[1].query = "status"
    /\ Sent[2].type = "podStatus" /\ Sent[2].tick = 1
    /\ Sent[3].tick = 2

(* A send the transport refused: the poller left its send statement and the *)
(* message did not reach the client.                                         *)
SendFailed == SendReturns /\ stream'.sent = stream.sent

(* C22: every failed send, of a Status, PodStatus or Error message, ends    *)
(* the poller: it issues no further cluster query and no further send.       *)
C22_FailedSendEndsPoller == [][SendFailed => stream'.send_task = "ended"]_vars

(* The ledger rows that exist. *)
Rows == {i \in Ids : deployments[i] # NoRow}

(* C23: no two ledger Deployment rows share a cluster resource name (all    *)
(* rows are in the one namespace "default"): repeated or concurrent creates  *)
(* never leave two rows that map to the same cluster objects.                *)
C23_UniqueResourceNames ==
    \A i, j \in Rows :
        i # j => deployments[i].cluster_deployment_name # deployments[j].cluster_deployment_name

(* The characters of the model's alphabet that are lower-case letters and   *)
(* digits.                                                                  *)
LowerAlnum == {"a", "b", "c", "d", "e", "p", "u", "w", "z", "1", "2", "3", "4"}

(* Uuid's Display prints 36 characters (hyphenated hex); the model writes a *)
(* uuid with two.                                                            *)
UuidLen == 36

(* The longest DNS label. *)
DnsLabelMax == 63

(* Length of the resource name as the program prints it. *)
PrintedLen(project_id, cname) == Len(cname) - Len(project_id) + UuidLen

DnsLabelSafe(s, len) ==
    /\ Len(s) >= 1
    /\ len <= DnsLabelMax
    /\ \A i \in 1..Len(s) : s[i] \in LowerAlnum \cup {"-"}
    /\ s[1] \in LowerAlnum
    /\ s[Len(s)] \in LowerAlnum

(* C24: the cluster resource name computed for a create request is a DNS    *)
(* label: at most 63 characters, only lower-case letters, digits and '-',   *)
(* starting and ending with a letter or digit.                               *)
C24_DnsLabelSafe ==
    \A c \in Calls :
        (calls[c].op = "create" /\ calls[c].deployment # NoRow) =>
            DnsLabelSafe(calls[c].deployment.cluster_deployment_name,
                         PrintedLen(calls[c].project_id,
                                    calls[c].deployment.cluster_deployment_name))

(* Every row a create has computed: the committed ones and the ones calls   *)
(* hold.                                                                     *)
ComputedRows ==
    {deployments[i] : i \in Rows}
        \cup {calls[c].deployment : c \in {d \in Calls : calls[d].op = "create"
                                                          /\ calls[d].deployment # NoRow}}

(* C25: the cluster resource name depends only on (project id, name): rows  *)
(* of the same project and name have the same resource name, whatever their *)
(* replicas, secrets, env and time of creation.                              *)
C25_NameOfProjectAndName ==
    \A r1, r2 \in ComputedRows :
        (r1.project_id = r2.project_id /\ r1.name = r2.name) =>
            r1.cluster_deployment_name = r2.cluster_deployment_name

(* Two rows of one project and name, created at different times with        *)
(* different replica counts.                                                 *)
C25_Witness ==
    \E i, j \in Rows :
        /\ i # j
        /\ deployments[i].project_id = deployments[j].project_id
        /\ deployments[i].name = deployments[j].name
        /\ deployments[i].replicas # deployments[j].replicas

CreateCalls == {c \in Calls : calls[c].op = "create"}

(* The ingress the create in slot c has created. *)
IngressOf(c) ==
    {o \in cluster : /\ Has(c, K8s("create_ingress", 0, TRUE))
                     /\ o.kind = "Ingress"
                     /\ o.name = calls[c].deployment.cluster_deployment_name}

(* externalUrl = subdomain.baseDomain, used as the ingress host and          *)
(* returned in the response.                                                 *)
UrlUsed(c) ==
    /\ calls[c].external_url = calls[c].subdomain \o <<".">> \o BaseDomain
    /\ \A o \in IngressOf(c) : o.host = calls[c].external_url
    /\ (Done(c, "create") /\ calls[c].result = "Ok") =>
          calls[c].response_url = calls[c].external_url

(* C26 as stated: with the subdomain omitted it is name-prefix of the owner *)
(* id, and externalUrl = subdomain.baseDomain is the ingress host and the    *)
(* url of the response.                                                      *)
C26_SubdomainIsNameAndOwner ==
    \A c \in CreateCalls :
        /\ calls[c].req_subdomain = NoSubdomain =>
              calls[c].subdomain = calls[c].name \o <<"-">> \o OwnerPrefix(calls[c].user_id)
        /\ UrlUsed(c)

(* C26 as amended: with the subdomain omitted it is the lower-cased          *)
(* name-prefix of the owner id; a given subdomain is used as it is; in all   *)
(* cases externalUrl = subdomain.baseDomain is the ingress host and the url  *)
(* of the response.                                                          *)
C26_SubdomainLowerCased ==
    \A c \in CreateCalls :
        /\ calls[c].req_subdomain = NoSubdomain =>
              calls[c].subdomain =
                 ToLowercase(calls[c].name \o <<"-">> \o OwnerPrefix(calls[c].user_id))
        /\ calls[c].req_subdomain # NoSubdomain => calls[c].subdomain = calls[c].req_subdomain
        /\ UrlUsed(c)

(* A create of the name "W_b" without subdomain has succeeded: its ingress  *)
(* exists and the response carries the url.                                  *)
C26_Witness ==
    \E c \in CreateCalls :
        /\ Done(c, "create") /\ calls[c].result = "Ok"
        /\ calls[c].req_subdomain = NoSubdomain
        /\ calls[c].name = <<"W", "_", "b">>
        /\ IngressOf(c) # {}
        /\ calls[c].response_url = <<"w", "_", "b", "-", "a", ".">> \o BaseDomain

(* The create in slot c returned because EncryptionService::new failed. *)
VaultNotConstructed(c) ==
    /\ Done(c, "create")
    /\ calls[c].result = "EncryptionFailed"
    /\ Trace(c) = <<>>

(* C27: once the service has started no create call fails because the       *)
(* vault could not be constructed from the configured key.                   *)
C27_NoVaultErrorPerRequest == \A c \in Calls : ~VaultNotConstructed(c)

(* The call in slot c is at an ownership-scoped ledger operation on a row   *)
(* that exists and whose project is owned by someone else.                   *)
AtForeignLedgerOp(c) ==
    /\ \/ At(c, "scale", "update_replicas")
       \/ At(c, "delete", "get_by_id")
       \/ At(c, "detail", "get_by_id")
    /\ deployments[calls[c].id] # NoRow
    /\ ProjectOwner(deployments[calls[c].id].project_id) # calls[c].user_id

ForeignOpNotFound ==
    \A c \in Calls :
        (AtForeignLedgerOp(c) /\ calls'[c] # calls[c]) =>
            /\ calls'[c].result = "NotFoundError"
            /\ deployments' = deployments

(* C28: getById, updateReplicas and delete on a row that exists but belongs *)
(* to another owner fail with a NotFound-class error and change no row.      *)
C28_ForeignOpIsNotFound == [][ForeignOpNotFound]_vars

IsPrefix(s, t) == Len(s) <= Len(t) /\ SubSeq(t, 1, Len(s)) = s

(* The events of a deployment are kept and at most extended, or all removed *)
(* in the step that deletes its row; a step of a create or a scale removes   *)
(* none.                                                                     *)
EventsAppendOnly ==
    \A i \in Ids :
        \/ IsPrefix(eventRows[i], eventRows'[i])
        \/ /\ eventRows'[i] = <<>>
           /\ deployments[i] # NoRow /\ deployments'[i] = NoRow
           /\ \E c \in Calls : At(c, "delete", "ledger_delete") /\ calls[c].id = i

(* C29: event rows are append-only: no step changes or removes an event     *)
(* except the cascade of deleting the owning Deployment row; create and      *)
(* scale only add events.                                                    *)
C29_EventsAppendOnly == [][EventsAppendOnly]_vars

(* A deployment with its created and its scaled event. *)
C29_Witness ==
    \E i \in Ids : eventRows[i] = <<"deployment_created", "deployment_scaled">>

(* C30: the cluster creates of a composition are issued in the order secret *)
(* (only with secrets), workload, network endpoint, ingress; each only after *)
(* all earlier ones succeeded, and none after the first failure.             *)
C30_ComposeInOrder ==
    \A c \in CreateCalls :
        LET issued == K8sCalls(c)
            order == ComposeCalls(calls[c].secrets)
        IN /\ Len(issued) <= Len(order)
           /\ \A i \in 1..Len(issued) :
                 /\ issued[i].call = order[i].call
                 /\ i < Len(issued) => issued[i].ok
           /\ \A i \in 1..Len(Trace(c)) :
                 (IsK8s(Trace(c)[i]) /\ ~Trace(c)[i].ok) => i = Len(Trace(c))

(* A create with secrets whose secret and workload were created and whose   *)
(* network endpoint was refused: the ingress was never attempted.            *)
C30_Witness ==
    \E c \in CreateCalls :
        /\ Done(c, "create")
        /\ K8sCalls(c) = <<K8s("create_secret", 0, TRUE), K8s("create_deployment", 0, TRUE),
                           K8s("create_service", 0, FALSE)>>

(* The create in slot c has returned and every cluster create of its        *)
(* composition succeeded.                                                    *)
CompositionSucceeded(c) ==
    /\ Done(c, "create")
    /\ K8sCalls(c) = ComposeCalls(calls[c].secrets)

(* C31: whenever the composition of a create completed successfully, the    *)
(* row's ledger status has been advanced from Pending to Running by the time *)
(* create returns.                                                           *)
C31_ComposedThenRunning ==
    \A c \in Calls :
        CompositionSucceeded(c) =>
            /\ deployments[calls[c].id] # NoRow
            /\ deployments[calls[c].id].status = "Running"

(* The cluster objects a row maps to: those of its resource name. *)
ObjectsOf(row) ==
    {o \in cluster : o.name \in {row.cluster_deployment_name,
                                 SecretName(row.cluster_deployment_name)}}

PendingHasNoObjects ==
    \A i \in Rows : deployments[i].status = "Pending" => ObjectsOf(deployments[i]) = {}

(* A row's status becomes Running only by the create of that row, after     *)
(* that create has issued every cluster create of its composition with       *)
(* success.                                                                  *)
RunningByFullComposition ==
    \A i \in Ids :
        ( /\ deployments'[i] # NoRow
          /\ deployments'[i].status = "Running"
          /\ (deployments[i] = NoRow \/ deployments[i].status # "Running") ) =>
            \E c \in Calls :
                /\ At(c, "create", "status")
                /\ calls[c].id = i
                /\ K8sCalls(c) = ComposeCalls(calls[c].secrets)

(* C32 as stated: a Pending row has no cluster objects, and a row is Running *)
(* only if its cluster objects were created by a composition that fully      *)
(* succeeded.                                                                *)
C32_StatusMatchesFootprint == []PendingHasNoObjects /\ [][RunningByFullComposition]_vars

(* C32 as amended: a row becomes Running only after its own composition     *)
(* fully succeeded; a Pending row can have cluster objects (composition in   *)
(* progress, failed partway, or complete with the status not yet advanced).  *)
C32_RunningAfterFullComposition == [][RunningByFullComposition]_vars

(* A row is Running after its create composed all its objects, which exist. *)
C32_Witness ==
    \E c \in CreateCalls :
        /\ CompositionSucceeded(c)
        /\ deployments[calls[c].id] # NoRow
        /\ deployments[calls[c].id].status = "Running"
        /\ {o.kind : o \in ObjectsOf(deployments[calls[c].id])}
              = {KindOf(e.call) : e \in {K8sCalls(c)[k] : k \in 1..Len(K8sCalls(c))}}

(* C33: under every interleaving of create, scale and delete calls, every   *)
(* cluster object belongs to a deployment whose ledger row exists.           *)
C33_ObjectsHaveRow ==
    \A o \in cluster : \E i \in Rows : o \in ObjectsOf(deployments[i])

(* The scale calls on row i that the slots hold. *)
ScalesOf(i) == {c \in Calls : calls[c].op = "scale" /\ calls[c].id = i}

LedgerMatchesWorkload(i) ==
    /\ Exists("Deployment", deployments[i].cluster_deployment_name)
    /\ deployments[i].replicas = Workload(deployments[i].cluster_deployment_name).replicas

(* C34 as stated: after any set of concurrent scale calls on one deployment  *)
(* have all returned success, the ledger replica count equals the replica    *)
(* count of the cluster workload.                                            *)
C34_ConcurrentScalesAgree ==
    \A i \in Rows :
        (ScalesOf(i) # {} /\ \A c \in ScalesOf(i) : ScaleSucceeded(c)) =>
            LedgerMatchesWorkload(i)

(* Only slot 1 has been used: no call started before the previous returned. *)
OneAtATime == \A d \in Calls : d # 1 => calls[d].op = "idle"

(* C34 as amended: after scale calls on one deployment that ran one at a    *)
(* time, the last of which returned success, the ledger replica count        *)
(* equals the replica count of the cluster workload; scale calls that        *)
(* overlap can all return success and leave the two counts different.        *)
C34_SequentialScalesAgree ==
    \A i \in Rows :
        (OneAtATime /\ 1 \in ScalesOf(i) /\ ScaleSucceeded(1)) =>
            LedgerMatchesWorkload(i)

(* The second of two scale calls that ran one after the other returned      *)
(* success, having changed the count.                                        *)
C34_Witness ==
    /\ OneAtATime
    /\ ScaleSucceeded(1)
    /\ opsStarted = 1 + MaxScales
    /\ calls[1].id \in Rows
    /\ Count(eventRows[calls[1].id], "deployment_scaled") = MaxScales
    /\ deployments[calls[1].id].replicas = MaxReplicas

(* The call in slot c is a scale, delete or get_detail on a row that exists  *)
(* and whose project is owned by someone other than the caller.              *)
OnForeignRow(c) ==
    /\ calls[c].op \in {"scale", "delete", "detail"}
    /\ deployments[calls[c].id] # NoRow
    /\ ProjectOwner(deployments[calls[c].id].project_id) # calls[c].user_id

(* A step of such a call changes no ledger row and no cluster object. *)
ForeignStepChangesNothing ==
    \A c \in Calls :
        (OnForeignRow(c) /\ calls'[c] # calls[c]) =>
            /\ deployments' = deployments
            /\ secretRows' = secretRows
            /\ eventRows' = eventRows
            /\ cluster' = cluster

(* Such a call has issued no cluster call and has not returned success. *)
ForeignCallIssuedNothing ==
    \A c \in Calls :
        OnForeignRow(c) =>
            /\ K8sCalls(c) = <<>>
            /\ Len(Trace(c)) <= 1
            /\ \A k \in 1..Len(Trace(c)) : ~Trace(c)[k].ok
            /\ calls[c].result # "Ok"

(* C35: a scale, delete or detail call on a deployment the caller does not   *)
(* own changes nothing: no deployment, secret or event row is inserted,      *)
(* updated or deleted, and no cluster call is issued.                        *)
C35_ForeignCallChangesNothing ==
    []ForeignCallIssuedNothing /\ [][ForeignStepChangesNothing]_vars

(* A call by a caller who does not own the row was refused at its first      *)
(* ledger call, with no injected failure, and the row is still Running.      *)
C35_Witness ==
    \E c \in Calls :
        /\ OnForeignRow(c)
        /\ calls[c].pc = "done"
        /\ faults = 0
        /\ Len(Trace(c)) = 1
        /\ deployments[calls[c].id].status = "Running"

(* The cluster calls that read and change nothing. *)
ReadOnlyCalls == {"get_deployment", "list_pods"}

Started == stream.handler \in {"open", "closed"}

(* The step that starts a stream is made for a row the caller owns. *)
StartsOnlyForOwner ==
    (stream.handler = "idle" /\ stream'.handler = "open") =>
        OwnedRow(stream'.id, stream'.user_id)

(* A step of the connection changes no ledger row and no cluster object. *)
StreamStepChangesNothing ==
    stream' # stream =>
        /\ deployments' = deployments
        /\ secretRows' = secretRows
        /\ eventRows' = eventRows
        /\ cluster' = cluster

(* A started stream has made one ledger call, the successful ownership-     *)
(* scoped read, and only read-only cluster calls; a connection that is not   *)
(* started has made no cluster call.                                         *)
StreamCalls ==
    /\ Started => stream.ledger = <<Ledger("get_by_id", TRUE)>>
    /\ stream.handler = "rejected" => stream.ledger = <<Ledger("get_by_id", FALSE)>>
    /\ ~Started => stream.k8s = {} /\ stream.sent = <<>>
    /\ stream.k8s \subseteq ReadOnlyCalls

(* C36: a live-status stream starts only after one successful ownership-     *)
(* scoped ledger read at connect time, and after that makes no ledger call   *)
(* and only read-only cluster calls: it creates, patches and deletes nothing. *)
C36_StreamReadsOnly ==
    /\ []StreamCalls
    /\ [][StartsOnlyForOwner /\ StreamStepChangesNothing]_vars

(* A stream on a Running deployment has made both cluster reads, sent their  *)
(* results and has been closed.                                              *)
C36_Witness ==
    /\ stream.handler = "closed"
    /\ stream.k8s = ReadOnlyCalls
    /\ Len(stream.sent) >= 2
    /\ deployments[stream.id].status = "Running"

(* The status values the operations store: the default of the INSERT and    *)
(* the Running of create's update_status.                                    *)
StoredStatus == \A i \in Rows : deployments[i].status \in {DefaultStatus, "Running"}

(* A row is inserted with the default status; the status of an existing row *)
(* is changed only to Running, by the update_status of its create; the step  *)
(* that removes a row is the row delete of a delete call, and leaves the     *)
(* other rows' statuses alone.                                               *)
StatusWrites ==
    \A i \in Ids :
        /\ (deployments[i] = NoRow /\ deployments'[i] # NoRow) =>
              deployments'[i].status = DefaultStatus
        /\ (deployments[i] # NoRow /\ deployments'[i] # NoRow
              /\ deployments'[i].status # deployments[i].status) =>
              /\ deployments'[i].status = "Running"
              /\ \E c \in Calls : At(c, "create", "status") /\ calls[c].id = i
                                    /\ calls'[c].pc = "done"
        /\ (deployments[i] # NoRow /\ deployments'[i] = NoRow) =>
              \E c \in Calls : At(c, "delete", "ledger_delete") /\ calls[c].id = i
                                 /\ calls'[c].pc = "done"

(* The only ledger call of a delete that writes is the row delete; scale    *)
(* and delete never call update_status.                                      *)
NoStatusCallOutsideCreate ==
    \A c \in Calls :
        calls[c].op \in {"scale", "delete", "detail"} =>
            \A k \in 1..Len(Trace(c)) : Trace(c)[k].call # "update_status"

(* C37: the only status value an operation writes to a Deployment row is     *)
(* Running, by create after composition; no sequence of create, scale and    *)
(* delete stores Succeeded, Failed or Terminated, and delete removes the row *)
(* without first setting Terminated.                                         *)
C37_OnlyRunningWritten ==
    /\ [](StoredStatus /\ NoStatusCallOutsideCreate)
    /\ [][StatusWrites]_vars

(* A delete has removed a row that was Running when the delete read it. *)
C37_Witness ==
    \E c \in Calls :
        /\ Done(c, "delete") /\ calls[c].result = "Ok"
        /\ calls[c].deployment # NoRow
        /\ calls[c].deployment.status = "Running"
        /\ deployments[calls[c].id] = NoRow
        /\ Has(c, Ledger("delete_row", TRUE))

====
